---- MODULE Spec2Model ----
(***************************************************************************)
(* State-machine model of two scripts of the repository:                   *)
(*   - library app/library.py: the JSON-backed library CLI                 *)
(*   - python capstone/capston0.2.py: the campus energy pipeline           *)
(* Text is modelled as a sequence of one-character strings, so that        *)
(* str.strip, str.lower, float(...) and strftime are computed, not assumed.*)
(***************************************************************************)
EXTENDS Integers, Sequences, FiniteSets, TLC

VARIABLES books, file, now, op,
          pc, folder, df_csv, df_user, df, daily, summary

libVars == <<books, file, now, op>>
energyVars == <<pc, folder, df_csv, df_user, df, daily, summary>>
vars == <<books, file, now, op, pc, folder, df_csv, df_user, df, daily, summary>>

(***************************************************************************)
(* Bounds of the model.                                                    *)
(***************************************************************************)
\* First day of the modelled clock, as a proleptic Gregorian ordinal
\* (738931 is 2024-02-15, so that the loan period crosses a leap February).
StartDay == 738931
\* The clock advances at most this many days.
MaxDays == 1
\* Files in the data folder, rows per CSV file, manually entered rows,
\* readings of a dataset handed directly to the aggregation functions.
MaxFiles == 2
MaxRows == 1
MaxManual == 1
MaxReadings == 2

(***************************************************************************)
(* Text helpers: str.strip(), str.lower(), decimal digits.                 *)
(***************************************************************************)
Alphabet == <<" ", "-", "0", "1", "2", "3", "4", "5", "6", "7", "8", "9",
              "A", "B", "D", "E", "M", "N", "O", "T", "U",
              "a", "b", "d", "e", "j", "k", "m", "n", "o", "t", "u", "w", "x", "y", "z">>

Rank(c) == CHOOSE i \in 1..Len(Alphabet) : Alphabet[i] = c

RECURSIVE LStrip(_)
LStrip(s) == IF s # <<>> /\ Head(s) = " " THEN LStrip(Tail(s)) ELSE s

RECURSIVE RStrip(_)
RStrip(s) == IF s # <<>> /\ s[Len(s)] = " " THEN RStrip(SubSeq(s, 1, Len(s) - 1)) ELSE s

Strip(s) == RStrip(LStrip(s))

LowerChar(c) ==
    CASE c = "A" -> "a" [] c = "B" -> "b" [] c = "D" -> "d" [] c = "E" -> "e"
      [] c = "M" -> "m" [] c = "N" -> "n" [] c = "O" -> "o" [] c = "T" -> "t"
      [] c = "U" -> "u"
      [] OTHER -> c

Lower(s) == [i \in 1..Len(s) |-> LowerChar(s[i])]

Digits == <<"0", "1", "2", "3", "4", "5", "6", "7", "8", "9">>

IsDigit(c) == \E i \in 1..10 : Digits[i] = c

DigitVal(c) == (CHOOSE i \in 1..10 : Digits[i] = c) - 1

AllDigits(s) == s # <<>> /\ \A i \in 1..Len(s) : IsDigit(s[i])

RECURSIVE Num(_)
Num(s) == IF s = <<>> THEN 0 ELSE 10 * Num(SubSeq(s, 1, Len(s) - 1)) + DigitVal(s[Len(s)])

RECURSIVE Pad(_, _)
Pad(n, w) == IF w = 0 THEN <<>> ELSE Pad(n \div 10, w - 1) \o <<Digits[(n % 10) + 1]>>

\* k in s (substring test); the empty string is in every string.
Contains(s, k) ==
    \E i \in 1..(Len(s) + 1) :
        i + Len(k) - 1 <= Len(s) /\ SubSeq(s, i, i + Len(k) - 1) = k

(***************************************************************************)
(* Dates: datetime.now() + timedelta(days=14), strftime("%Y-%m-%d").       *)
(* A date is a proleptic Gregorian ordinal, converted as datetime does.    *)
(***************************************************************************)
LOAN_DAYS == 14

DAYS_BEFORE_MONTH == <<0, 31, 59, 90, 120, 151, 181, 212, 243, 273, 304, 334>>
DAYS_IN_MONTH == <<31, 28, 31, 30, 31, 30, 31, 31, 30, 31, 30, 31>>

ord2ymd(ordinal) ==
    LET n0 == ordinal - 1
        n400 == n0 \div 146097
        r400 == n0 % 146097
        n100 == r400 \div 36524
        r100 == r400 % 36524
        n4 == r100 \div 1461
        r4 == r100 % 1461
        n1 == r4 \div 365
        n == r4 % 365
        year == n400 * 400 + 1 + n100 * 100 + n4 * 4 + n1
        leapyear == n1 = 3 /\ (n4 # 24 \/ n100 = 3)
        m0 == (n + 50) \div 32
        p0 == DAYS_BEFORE_MONTH[m0] + (IF m0 > 2 /\ leapyear THEN 1 ELSE 0)
        month == IF p0 > n THEN m0 - 1 ELSE m0
        preceding == IF p0 > n
                     THEN p0 - (DAYS_IN_MONTH[m0 - 1]
                                + (IF m0 - 1 = 2 /\ leapyear THEN 1 ELSE 0))
                     ELSE p0
    IN  IF n1 = 4 \/ n100 = 4
        THEN <<year - 1, 12, 31>>
        ELSE <<year, month, n - preceding + 1>>

strftime(ordinal) ==
    LET ymd == ord2ymd(ordinal)
    IN  Pad(ymd[1], 4) \o <<"-">> \o Pad(ymd[2], 2) \o <<"-">> \o Pad(ymd[3], 2)

\* (datetime.now() + timedelta(days=14)).strftime("%Y-%m-%d")
DueDateShort(today) == strftime(today + 7)

DueDate(today) == strftime(today + LOAN_DAYS)

(***************************************************************************)
(* capston0.2.py: values of a DataFrame cell and their conversions.        *)
(***************************************************************************)
HOURS_PER_DAY == 24

\* A cell is text, a Timestamp (hours since the start of day 0), NaT,
\* a number or NaN.
StrCell(s) == [k |-> "str", s |-> s, v |-> 0]
Timestamp(n) == [k |-> "ts", s |-> <<>>, v |-> n]
NaT == [k |-> "NaT", s |-> <<>>, v |-> 0]
Number(n) == [k |-> "num", s |-> <<>>, v |-> n]
NaN == [k |-> "NaN", s |-> <<>>, v |-> 0]

\* Timestamp text is written "D HH": a day digit, a blank, a two-digit hour.
WellFormedTimestamp(s) ==
    /\ Len(s) = 4
    /\ IsDigit(s[1])
    /\ s[2] = " "
    /\ IsDigit(s[3])
    /\ IsDigit(s[4])
    /\ Num(SubSeq(s, 3, 4)) < HOURS_PER_DAY

ParseTimestamp(s) == Timestamp(DigitVal(s[1]) * HOURS_PER_DAY + Num(SubSeq(s, 3, 4)))

\* pd.to_datetime(x) raises on text it cannot parse; empty text is NaT.
ToDatetimeRaises(c) == c.k = "str" /\ c.s # <<>> /\ ~WellFormedTimestamp(c.s)

\* pd.to_datetime(x), for x on which it does not raise.
to_datetime(c) ==
    IF c.k = "str"
    THEN (IF c.s = <<>> THEN NaT ELSE ParseTimestamp(c.s))
    ELSE IF c.k = "ts" THEN c ELSE NaT

\* pd.to_datetime(x, errors="coerce")
to_datetime_coerce(c) == IF ToDatetimeRaises(c) THEN NaT ELSE to_datetime(c)

\* pd.to_numeric(x, errors="coerce")
to_numeric_coerce(c) ==
    IF c.k = "str"
    THEN (IF AllDigits(c.s) THEN Number(Num(c.s)) ELSE NaN)
    ELSE IF c.k = "num" THEN c ELSE NaN

\* float(text) raises ValueError on text that is not a number.
FloatRaises(s) == ~AllDigits(s)

float(s) == Number(Num(s))

RECURSIVE TextLess(_, _)
TextLess(a, b) ==
    IF a = <<>> THEN b # <<>>
    ELSE IF b = <<>> THEN FALSE
    ELSE IF Head(a) = Head(b) THEN TextLess(Tail(a), Tail(b))
    ELSE Rank(Head(a)) < Rank(Head(b))

\* A DataFrame is its rows; load_and_combine_data may return None instead.
Frame(rows) == [isNone |-> FALSE, rows |-> rows]
NoneFrame == [isNone |-> TRUE, rows |-> <<>>]
IsEmpty(f) == f.rows = <<>>

Row(ts, kwh, building) == [timestamp |-> ts, kwh |-> kwh, building |-> building]

RECURSIVE Concat(_)
Concat(frames) == IF frames = <<>> THEN <<>> ELSE Head(frames) \o Concat(Tail(frames))

RECURSIVE SumKwh(_)
SumKwh(rows) ==
    IF rows = <<>> THEN 0
    ELSE (IF Head(rows).kwh.k = "num" THEN Head(rows).kwh.v ELSE 0) + SumKwh(Tail(rows))

(***************************************************************************)
(* load_and_combine_data                                                   *)
(***************************************************************************)
DONE == <<"d", "o", "n", "e">>

Stems == <<"A", "B", "D", "E">>

CsvTimestampTexts == {<<"0", " ", "1", "8">>, <<"2", " ", "0", "6">>, <<"j", "k">>}
CsvKwhTexts == {<<"2">>, <<"x">>}

CsvRow(ts, kwh) == [timestamp |-> ts, kwh |-> kwh]

CsvRows == {CsvRow(t, k) : t \in CsvTimestampTexts, k \in CsvKwhTexts}

RowLists == UNION {[1..n -> CsvRows] : n \in 0..MaxRows}

FileContent(suffix, kind, cols, rows) ==
    [suffix |-> suffix, kind |-> kind, cols |-> cols, rows |-> rows]

\* What a file of the folder may be: not a CSV file, an empty file, a file
\* read_csv cannot read, a table lacking a required column, a table of rows.
FileContents ==
    {FileContent("txt", "table", {"timestamp", "kwh"}, <<>>),
     FileContent("csv", "empty", {}, <<>>),
     FileContent("csv", "unreadable", {}, <<>>),
     FileContent("csv", "table", {"kwh"}, <<>>),
     FileContent("csv", "table", {"timestamp"}, <<>>)}
    \cup {FileContent("csv", "table", {"timestamp", "kwh"}, r) : r \in RowLists}

NamedFile(j, c) == [stem |-> <<Stems[j]>>, content |-> c]

NoFolder == [exists |-> FALSE, files |-> {}]

Folders ==
    {NoFolder}
    \cup {[exists |-> TRUE, files |-> {NamedFile(j, c[j]) : j \in DOMAIN c}] :
            c \in UNION {[1..m -> FileContents] : m \in 0..MaxFiles}}

\* sorted(list(data_folder.glob("*.csv")))
RECURSIVE SortedByName(_)
SortedByName(S) ==
    IF S = {} THEN <<>>
    ELSE LET first == CHOOSE f \in S : \A g \in S : g = f \/ TextLess(f.stem, g.stem)
         IN  <<first>> \o SortedByName(S \ {first})

csv_files(fold) == SortedByName({f \in fold.files : f.content.suffix = "csv"})

\* pd.read_csv(f): the exception it raises, or "none".
read_csv_error(f) ==
    IF f.content.kind = "empty" THEN "EmptyDataError"
    ELSE IF f.content.kind = "unreadable" THEN "Exception"
    ELSE "none"

CaughtOnlyEmptyData(err) == err = "EmptyDataError"

\* except pd.errors.EmptyDataError / except Exception
Caught(err) == err \in {"EmptyDataError", "Exception"}

\* One iteration of the loop over csv_files: "raised", "skipped" or "frame".
LoadOutcome(f) ==
    IF read_csv_error(f) # "none"
    THEN (IF Caught(read_csv_error(f)) THEN "skipped" ELSE "raised")
    ELSE IF "timestamp" \notin f.content.cols \/ "kwh" \notin f.content.cols
    THEN "skipped"
    ELSE "frame"

\* temp["building"] = f.stem
LoadedFrame(f) ==
    [j \in 1..Len(f.content.rows) |->
        Row(StrCell(f.content.rows[j].timestamp), StrCell(f.content.rows[j].kwh), f.stem)]

RECURSIVE LoadFrames(_)
LoadFrames(files) ==
    IF files = <<>> THEN <<>>
    ELSE (IF LoadOutcome(Head(files)) = "frame" THEN <<LoadedFrame(Head(files))>> ELSE <<>>)
         \o LoadFrames(Tail(files))

Normalize(rows) ==
    [j \in 1..Len(rows) |->
        Row(to_datetime_coerce(rows[j].timestamp), to_numeric_coerce(rows[j].kwh),
            rows[j].building)]

\* df.dropna(subset=["timestamp", "kwh"]) keeps the rows where neither is missing.
Complete(r) == r.timestamp.k # "NaT" /\ r.kwh.k # "NaN"

RECURSIVE dropna(_)
dropna(rows) ==
    IF rows = <<>> THEN <<>>
    ELSE (IF Complete(Head(rows)) THEN <<Head(rows)>> ELSE <<>>) \o dropna(Tail(rows))

\* df.sort_values("timestamp"): rows with equal timestamps keep their order.
RECURSIVE InsertByTimestamp(_, _)
InsertByTimestamp(sorted, r) ==
    IF sorted = <<>> THEN <<r>>
    ELSE IF sorted[Len(sorted)].timestamp.v <= r.timestamp.v THEN Append(sorted, r)
    ELSE Append(InsertByTimestamp(SubSeq(sorted, 1, Len(sorted) - 1), r), sorted[Len(sorted)])

RECURSIVE sort_values(_)
sort_values(rows) ==
    IF rows = <<>> THEN <<>>
    ELSE InsertByTimestamp(sort_values(SubSeq(rows, 1, Len(rows) - 1)), rows[Len(rows)])

Result(raised, value) == [raised |-> raised, value |-> value]

load_and_combine_data(fold) ==
    LET files == csv_files(fold)
        frames == LoadFrames(files)
    IN  IF ~fold.exists THEN Result(FALSE, NoneFrame)
        ELSE IF files = <<>> THEN Result(FALSE, NoneFrame)
        ELSE IF \E j \in 1..Len(files) : LoadOutcome(files[j]) = "raised"
        THEN Result(TRUE, NoneFrame)
        ELSE IF frames = <<>> THEN Result(FALSE, NoneFrame)
        ELSE Result(FALSE, Frame(sort_values(dropna(Normalize(Concat(frames))))))

(***************************************************************************)
(* Aggregation: calculate_daily_totals, building_wise_summary              *)
(***************************************************************************)
Day(ts) == ts.v \div HOURS_PER_DAY

SetMin(S) == CHOOSE x \in S : \A y \in S : x <= y
SetMax(S) == CHOOSE x \in S : \A y \in S : y <= x

RECURSIVE RowsOnDay(_, _)
RowsOnDay(rows, d) ==
    IF rows = <<>> THEN <<>>
    ELSE (IF Head(rows).timestamp.k = "ts" /\ Day(Head(rows).timestamp) = d
          THEN <<Head(rows)>> ELSE <<>>) \o RowsOnDay(Tail(rows), d)

LastBinExclusive(days) == SetMax(days) - 1

\* resample("D") makes one bin per calendar day from the first day with a
\* reading to the last one, both included.
LastBin(days) == SetMax(days)

DailyBins(rows) ==
    LET days == {Day(rows[j].timestamp) : j \in {i \in 1..Len(rows) : rows[i].timestamp.k = "ts"}}
        lo == SetMin(days)
        hi == LastBin(days)
    IN  IF days = {} THEN <<>>
        ELSE [j \in 1..(hi - lo + 1) |->
                [day |-> lo + j - 1, total |-> SumKwh(RowsOnDay(rows, lo + j - 1))]]

\* The outcomes of calculate_daily_totals(df). pd.to_datetime raises on text
\* it cannot parse; rows whose index is NaT fall in no bin; a non-empty index
\* holding nothing but NaT either raises or gives an empty series.
calculate_daily_totals(rows) ==
    LET conv == [j \in 1..Len(rows) |->
                    Row(to_datetime(rows[j].timestamp), rows[j].kwh, rows[j].building)]
    IN  IF \E j \in 1..Len(rows) : ToDatetimeRaises(rows[j].timestamp)
        THEN {Result(TRUE, <<>>)}
        ELSE IF rows # <<>> /\ \A j \in 1..Len(conv) : conv[j].timestamp.k = "NaT"
        THEN {Result(TRUE, <<>>), Result(FALSE, <<>>)}
        ELSE {Result(FALSE, DailyBins(conv))}

RECURSIVE RowsOfBuilding(_, _)
RowsOfBuilding(rows, b) ==
    IF rows = <<>> THEN <<>>
    ELSE (IF Head(rows).building = b THEN <<Head(rows)>> ELSE <<>>)
         \o RowsOfBuilding(Tail(rows), b)

\* One row of the summary: mean (as sum over count), min, max and sum of kwh.
GroupAgg(rows, b) ==
    LET g == RowsOfBuilding(rows, b)
        vals == {g[j].kwh.v : j \in {i \in 1..Len(g) : g[i].kwh.k = "num"}}
    IN  [building |-> b,
         mean |-> [sum |-> SumKwh(g), count |-> Cardinality({i \in 1..Len(g) : g[i].kwh.k = "num"})],
         min |-> IF vals = {} THEN NaN ELSE Number(SetMin(vals)),
         max |-> IF vals = {} THEN NaN ELSE Number(SetMax(vals)),
         total_kwh |-> SumKwh(g)]

\* sort_values("total_kwh", ascending=False) over the groups, which groupby
\* yields in key order.
RECURSIVE SortedByTotalDesc(_)
SortedByTotalDesc(G) ==
    IF G = {} THEN <<>>
    ELSE LET first == CHOOSE g \in G : \A h \in G :
                        \/ h = g
                        \/ h.total_kwh < g.total_kwh
                        \/ (h.total_kwh = g.total_kwh /\ TextLess(g.building, h.building))
         IN  <<first>> \o SortedByTotalDesc(G \ {first})

building_wise_summary(rows) ==
    SortedByTotalDesc({GroupAgg(rows, b) : b \in {rows[j].building : j \in 1..Len(rows)}})

(***************************************************************************)
(* main and collect_user_input                                             *)
(***************************************************************************)
PromptInputs == {<<>>, <<"n">>, <<"y">>, <<" ", "Y">>}
BuildingInputs == {<<"M">>, <<" ", "A">>, <<"D", "o", "n", "e">>}
TimestampInputs == {<<"0", " ", "0", "6">>, <<>>, <<"j", "k">>, <<"d", "o", "n", "e">>}
KwhInputs == {<<"3">>, <<"x">>, <<"D", "O", "N", "E", " ">>}

\* ts = pd.to_datetime(timestamp), or the text itself when that raises.
ParsedOrText(timestamp) ==
    IF ToDatetimeRaises(StrCell(timestamp)) THEN StrCell(timestamp)
    ELSE to_datetime(StrCell(timestamp))

\* df_user["timestamp"] = pd.to_datetime(df_user["timestamp"]), left as it
\* is when that raises.
UserFrame(rows) ==
    IF \E j \in 1..Len(rows) : ToDatetimeRaises(rows[j].timestamp)
    THEN rows
    ELSE [j \in 1..Len(rows) |->
            Row(to_datetime(rows[j].timestamp), rows[j].kwh, rows[j].building)]

main_load ==
    /\ pc = "start"
    /\ LET r == load_and_combine_data(folder)
       IN  /\ pc' = IF r.raised THEN "raised" ELSE "prompt"
           /\ df_csv' = r.value
    /\ UNCHANGED <<folder, df_user, df, daily, summary>>
    /\ UNCHANGED libVars

main_prompt(answer) ==
    /\ pc = "prompt"
    /\ pc' = IF Lower(Strip(answer)) = <<"y">> THEN "collect" ELSE "merge"
    /\ df_user' = Frame(<<>>)
    /\ UNCHANGED <<folder, df_csv, df, daily, summary>>
    /\ UNCHANGED libVars

\* One pass of the input loop; on 'done' the loop ends and the frame is built.
collect_user_input(b_in, t_in, k_in) ==
    LET building == Strip(b_in)
        timestamp == Strip(t_in)
        kwh == Strip(k_in)
    IN  /\ pc = "collect"
        /\ IF \/ Lower(building) = DONE
              \/ Lower(timestamp) = DONE
              \/ Lower(kwh) = DONE
           THEN /\ df_user' = Frame(UserFrame(df_user.rows))
                /\ pc' = "merge"
           ELSE IF FloatRaises(kwh)
           THEN UNCHANGED <<df_user, pc>>
           ELSE /\ Len(df_user.rows) < MaxManual
                /\ df_user' = Frame(Append(df_user.rows,
                                           Row(ParsedOrText(timestamp), float(kwh), building)))
                /\ pc' = pc
        /\ UNCHANGED <<folder, df_csv, df, daily, summary>>
        /\ UNCHANGED libVars

Merged(csv, user) ==
    IF ~csv.isNone /\ ~IsEmpty(csv)
    THEN (IF ~IsEmpty(user) THEN Frame(csv.rows \o user.rows) ELSE csv)
    ELSE user

main_merge ==
    /\ pc = "merge"
    /\ df' = Merged(df_csv, df_user)
    /\ pc' = IF df'.isNone \/ IsEmpty(df') THEN "exit" ELSE "aggregate"
    /\ UNCHANGED <<folder, df_csv, df_user, daily, summary>>
    /\ UNCHANGED libVars

main_aggregate ==
    /\ pc = "aggregate"
    /\ \E d \in calculate_daily_totals(df.rows) :
          IF d.raised
          THEN /\ pc' = "raised"
               /\ UNCHANGED <<daily, summary>>
          ELSE /\ daily' = d.value
               /\ summary' = building_wise_summary(df.rows)
               /\ pc' = "output"
    /\ UNCHANGED <<folder, df_csv, df_user, df>>
    /\ UNCHANGED libVars

\* save_outputs, create_dashboard, create_summary_file: files derived from
\* df, daily and summary.
main_outputs ==
    /\ pc = "output"
    /\ pc' = "done"
    /\ UNCHANGED <<folder, df_csv, df_user, df, daily, summary>>
    /\ UNCHANGED libVars

LibraryIdle ==
    /\ books = <<>>
    /\ file = [exists |-> FALSE, data |-> <<>>]
    /\ now = StartDay
    /\ op = [name |-> "idle", isbn |-> <<>>, arg |-> <<>>, msg |-> ""]

InitMain ==
    /\ pc = "start"
    /\ folder \in Folders
    /\ df_csv = NoneFrame
    /\ df_user = NoneFrame
    /\ df = NoneFrame
    /\ daily = <<>>
    /\ summary = <<>>
    /\ LibraryIdle

NextMain ==
    \/ main_load
    \/ \E answer \in PromptInputs : main_prompt(answer)
    \/ \E b \in BuildingInputs, t \in TimestampInputs, k \in KwhInputs :
            collect_user_input(b, t, k)
    \/ main_merge
    \/ main_aggregate
    \/ main_outputs

\* The whole pipeline, from the folder given on the command line.
SpecMain == InitMain /\ [][NextMain]_vars

\* load_and_combine_data alone, on every folder.
SpecIngest == InitMain /\ [][main_load]_vars

\* The aggregation functions applied to every dataset of normalised readings.
ReadingTimestamps == {Timestamp(6), Timestamp(18), Timestamp(54), NaT}
ReadingKwh == {Number(1), Number(2)}
ReadingBuildings == {<<"A">>, <<"B">>}

Readings == {Row(t, k, b) : t \in ReadingTimestamps, k \in ReadingKwh, b \in ReadingBuildings}

Datasets == UNION {[1..n -> Readings] : n \in 0..MaxReadings}

InitAggregate ==
    /\ pc = "aggregate"
    /\ df \in {Frame(rows) : rows \in Datasets}
    /\ folder = NoFolder
    /\ df_csv = NoneFrame
    /\ df_user = NoneFrame
    /\ daily = <<>>
    /\ summary = <<>>
    /\ LibraryIdle

SpecAggregate == InitAggregate /\ [][main_aggregate]_vars

(***************************************************************************)
(* library.py                                                              *)
(***************************************************************************)
\* JSON values of the optional fields: a string, or null (Python None).
Str(s) == [null |-> FALSE, s |-> s]
Null == [null |-> TRUE, s |-> <<>>]

Unknown == <<"U", "n", "k", "n", "o", "w", "n">>

\* What the user may type at the prompts.
TitleInputs == {<<>>, <<" ">>, <<" ", "t">>}
AuthorInputs == {<<>>, <<"a", " ">>}
IsbnInputs == {<<>>, <<"1">>, <<" ", "1", " ">>, <<"2">>}
BorrowerInputs == {<<>>, <<" ">>, <<"x">>, <<" ", "y">>}
SearchInputs == {<<>>, <<"T">>, <<"2">>, <<"z">>}

\* books.json: absent, or holding a JSON array of records.
NoFile == [exists |-> FALSE, data |-> <<>>]

load(f) == IF f.exists THEN f.data ELSE <<>>

save(bs) == [exists |-> TRUE, data |-> bs]

\* Index of the first record whose isbn is `isbn`; 0 stands for None.
find(bs, isbn) ==
    IF \E k \in 1..Len(bs) : bs[k].isbn = isbn
    THEN CHOOSE k \in 1..Len(bs) :
            bs[k].isbn = isbn /\ \A j \in 1..(k - 1) : bs[j].isbn # isbn
    ELSE 0

Done(name, isbn, arg, msg) == [name |-> name, isbn |-> isbn, arg |-> arg, msg |-> msg]

Running == op.name # "exit"

NewRecord(t, a, i) == [title |-> t, author |-> a, isbn |-> i, status |-> "available"]

add_book_unchecked(t_in, a_in, i_in) ==
    LET t == Strip(t_in)
        a == IF Strip(a_in) = <<>> THEN Unknown ELSE Strip(a_in)
        i == Strip(i_in)
    IN  /\ Running
        /\ IF t = <<>> \/ i = <<>>
           THEN /\ op' = Done("add", i_in, <<>>, "Title and ISBN required.")
                /\ UNCHANGED <<books, file>>
           ELSE /\ books' = Append(books, NewRecord(t, a, i))
                /\ file' = save(books')
                /\ op' = Done("add", i_in, <<>>, "Added.")
        /\ UNCHANGED now
        /\ UNCHANGED energyVars

add_book(t_in, a_in, i_in) ==
    LET t == Strip(t_in)
        a == IF Strip(a_in) = <<>> THEN Unknown ELSE Strip(a_in)
        i == Strip(i_in)
    IN  /\ Running
        /\ IF t = <<>> \/ i = <<>>
           THEN /\ op' = Done("add", i_in, <<>>, "Title and ISBN required.")
                /\ UNCHANGED <<books, file>>
           ELSE IF find(books, i) # 0
           THEN /\ op' = Done("add", i_in, <<>>, "ISBN exists.")
                /\ UNCHANGED <<books, file>>
           ELSE /\ books' = Append(books, NewRecord(t, a, i))
                /\ file' = save(books')
                /\ op' = Done("add", i_in, <<>>, "Added.")
        /\ UNCHANGED now
        /\ UNCHANGED energyVars

view_books ==
    /\ Running
    /\ op' = Done("view", <<>>, <<>>, IF books = <<>> THEN "No books." ELSE "listed")
    /\ UNCHANGED <<books, file, now>>
    /\ UNCHANGED energyVars

search_book(k_in) ==
    LET k == Lower(Strip(k_in))
        res == {j \in 1..Len(books) :
                    \/ Contains(Lower(books[j].title), k)
                    \/ Contains(Lower(books[j].author), k)
                    \/ Contains(Lower(books[j].isbn), k)}
    IN  /\ Running
        /\ op' = Done("search", <<>>, k_in, IF res = {} THEN "No match." ELSE "matched")
        /\ UNCHANGED <<books, file, now>>
    /\ UNCHANGED energyVars

\* dict.update: the given keys are set, the others kept.
Update(b, u) ==
    [f \in (DOMAIN b) \cup (DOMAIN u) |-> IF f \in DOMAIN u THEN u[f] ELSE b[f]]

IssueUpdate(borrower, today) ==
    [status |-> "issued", borrower |-> Str(borrower), due_date |-> Str(DueDate(today))]

ReturnUpdateKeepsFields == [status |-> "available"]

ReturnUpdate == [status |-> "available", borrower |-> Null, due_date |-> Null]

issue_book_unchecked(i_in, b_in) ==
    LET i == Strip(i_in)
        k == find(books, i)
        borrower == IF Strip(b_in) = <<>> THEN Unknown ELSE Strip(b_in)
    IN  /\ Running
        /\ IF k = 0
           THEN /\ op' = Done("issue", i_in, <<>>, "Not found.")
                /\ UNCHANGED <<books, file>>
           ELSE /\ books' = [books EXCEPT ![k] = Update(books[k], IssueUpdate(borrower, now))]
                /\ file' = save(books')
                /\ op' = Done("issue", i_in, b_in, "Issued.")
        /\ UNCHANGED now
        /\ UNCHANGED energyVars

issue_book(i_in, b_in) ==
    LET i == Strip(i_in)
        k == find(books, i)
        borrower == IF Strip(b_in) = <<>> THEN Unknown ELSE Strip(b_in)
    IN  /\ Running
        /\ IF k = 0
           THEN /\ op' = Done("issue", i_in, <<>>, "Not found.")
                /\ UNCHANGED <<books, file>>
           ELSE IF books[k].status # "available"
           THEN /\ op' = Done("issue", i_in, <<>>, "Already issued.")
                /\ UNCHANGED <<books, file>>
           ELSE /\ books' = [books EXCEPT ![k] = Update(books[k], IssueUpdate(borrower, now))]
                /\ file' = save(books')
                /\ op' = Done("issue", i_in, b_in, "Issued.")
        /\ UNCHANGED now
        /\ UNCHANGED energyVars

return_book(i_in) ==
    LET i == Strip(i_in)
        k == find(books, i)
    IN  /\ Running
        /\ IF k = 0
           THEN /\ op' = Done("return", i_in, <<>>, "Not found.")
                /\ UNCHANGED <<books, file>>
           ELSE IF books[k].status # "issued"
           THEN /\ op' = Done("return", i_in, <<>>, "Not issued.")
                /\ UNCHANGED <<books, file>>
           ELSE /\ books' = [books EXCEPT ![k] = Update(books[k], ReturnUpdate)]
                /\ file' = save(books')
                /\ op' = Done("return", i_in, <<>>, "Returned.")
        /\ UNCHANGED now
        /\ UNCHANGED energyVars

invalid_choice ==
    /\ Running
    /\ op' = Done("invalid", <<>>, <<>>, "Invalid.")
    /\ UNCHANGED <<books, file, now>>
    /\ UNCHANGED energyVars

exit ==
    /\ Running
    /\ op' = Done("exit", <<>>, <<>>, "")
    /\ UNCHANGED <<books, file, now>>
    /\ UNCHANGED energyVars

\* The wall clock read by datetime.now() moves on between menu choices.
Tick ==
    /\ Running
    /\ now < StartDay + MaxDays
    /\ now' = now + 1
    /\ UNCHANGED <<books, file, op>>
    /\ UNCHANGED energyVars

menu ==
    \/ \E t \in TitleInputs, a \in AuthorInputs, i \in IsbnInputs : add_book(t, a, i)
    \/ view_books
    \/ \E k \in SearchInputs : search_book(k)
    \/ \E i \in IsbnInputs, b \in BorrowerInputs : issue_book(i, b)
    \/ \E i \in IsbnInputs : return_book(i)
    \/ exit
    \/ invalid_choice

EnergyIdle ==
    /\ pc = "idle"
    /\ folder = NoFolder
    /\ df_csv = NoneFrame
    /\ df_user = NoneFrame
    /\ df = NoneFrame
    /\ daily = <<>>
    /\ summary = <<>>

InitLibrary ==
    /\ file \in {NoFile, save(<<>>)}
    /\ books = load(file)
    /\ now = StartDay
    /\ op = Done("start", <<>>, <<>>, "")
    /\ EnergyIdle

NextLibrary ==
    \/ menu
    \/ Tick

SpecLibrary == InitLibrary /\ [][NextLibrary]_vars

(***************************************************************************)
(* Properties of library.py, checked under SpecLibrary.                    *)
(***************************************************************************)
SixFields == {"title", "author", "isbn", "status", "borrower", "due_date"}

\* Positions of the records holding an ISBN.
Held(bs, isbn) == {k \in 1..Len(bs) : bs[k].isbn = isbn}

NoSharedIsbn(bs) == \A j, k \in 1..Len(bs) : j # k => bs[j].isbn # bs[k].isbn

HasValue(b, f) == f \in DOMAIN b /\ ~b[f].null

Blank(s) == \A j \in 1..Len(s) : s[j] = " "

Spaces(n) == [j \in 1..n |-> " "]

\* s is raw with the surrounding blanks removed, stated without Strip.
Trimmed(raw, s) ==
    /\ s # <<>>
    /\ Head(s) # " "
    /\ s[Len(s)] # " "
    /\ \E p, q \in 0..Len(raw) : raw = Spaces(p) \o s \o Spaces(q)

IsLeap(y) == y % 4 = 0 /\ (y % 100 # 0 \/ y % 400 = 0)

DaysBeforeYear(y) == (y - 1) * 365 + (y - 1) \div 4 - (y - 1) \div 100 + (y - 1) \div 400

RECURSIVE DaysBeforeMonth(_, _)
DaysBeforeMonth(y, m) ==
    IF m = 1 THEN 0
    ELSE DaysBeforeMonth(y, m - 1)
         + (IF m - 1 = 2 THEN (IF IsLeap(y) THEN 29 ELSE 28)
            ELSE IF m - 1 \in {4, 6, 9, 11} THEN 30 ELSE 31)

\* The ordinal of the day a "YYYY-MM-DD" text names; 0 when it names none.
DateOrdinal(s) ==
    IF /\ Len(s) = 10
       /\ s[5] = "-"
       /\ s[8] = "-"
       /\ AllDigits(SubSeq(s, 1, 4))
       /\ AllDigits(SubSeq(s, 6, 7))
       /\ AllDigits(SubSeq(s, 9, 10))
       /\ Num(SubSeq(s, 6, 7)) \in 1..12
       /\ Num(SubSeq(s, 9, 10)) \in 1..31
    THEN DaysBeforeYear(Num(SubSeq(s, 1, 4)))
         + DaysBeforeMonth(Num(SubSeq(s, 1, 4)), Num(SubSeq(s, 6, 7)))
         + Num(SubSeq(s, 9, 10))
    ELSE 0

FrameOthers(k) ==
    /\ Len(books') = Len(books)
    /\ \A j \in 1..Len(books) : j # k => books'[j] = books[j]

Persisted == file'.exists /\ file'.data = books'

C1_DuplicateStep ==
    (op'.name = "add" /\ Held(books, Strip(op'.isbn)) # {})
        => (books' = books /\ file' = file)

\* C1: add_book with an ISBN some record already holds leaves the books and
\* the saved file unchanged, and no two records (in memory or in the saved
\* file) ever share an ISBN.
C1_DuplicateIsbnRejected ==
    /\ [](NoSharedIsbn(books) /\ NoSharedIsbn(file.data))
    /\ [][C1_DuplicateStep]_vars

C1_Witness ==
    /\ op.name = "add"
    /\ op.msg = "ISBN exists."
    /\ op.isbn = <<" ", "1", " ">>
    /\ Len(books) = 2

C2_IssueStep ==
    \A k \in Held(books, Strip(op'.isbn)) :
        (op'.name = "issue" /\ books[k].status = "available")
            => /\ books'[k].status = "issued"
               /\ HasValue(books'[k], "borrower")
               /\ IF Blank(op'.arg)
                  THEN books'[k].borrower.s = Unknown
                  ELSE Trimmed(op'.arg, books'[k].borrower.s)
               /\ HasValue(books'[k], "due_date")
               /\ DateOrdinal(books'[k].due_date.s) = now + 14
               /\ books'[k].title = books[k].title
               /\ books'[k].author = books[k].author
               /\ books'[k].isbn = books[k].isbn
               /\ FrameOthers(k)
               /\ Persisted

\* C2: issue_book on an existing, available ISBN leaves that record issued,
\* with the typed borrower ("Unknown" if blank) and a due date 14 days after
\* the current date, changes no other record and saves the result.
C2_IssueSetsStatusAndDueDate == [][C2_IssueStep]_vars

C2_Witness ==
    /\ op.name = "issue"
    /\ op.msg = "Issued."
    /\ op.arg = <<" ">>
    /\ now = StartDay + 1
    /\ \E k \in 1..Len(books) :
            /\ books[k].isbn = Strip(op.isbn)
            /\ books[k].status = "issued"
            /\ books[k].borrower = Str(Unknown)

C3_ReturnStep ==
    \A k \in Held(books, Strip(op'.isbn)) :
        (op'.name = "return" /\ books[k].status = "issued")
            => /\ books'[k].status = "available"
               /\ "borrower" \in DOMAIN books'[k]
               /\ books'[k].borrower = Null
               /\ "due_date" \in DOMAIN books'[k]
               /\ books'[k].due_date = Null
               /\ books'[k].title = books[k].title
               /\ books'[k].author = books[k].author
               /\ books'[k].isbn = books[k].isbn
               /\ FrameOthers(k)
               /\ Held(books', Strip(op'.isbn)) = {k}

\* C3: return_book on an existing, issued ISBN leaves that record available
\* with borrower and due_date null, title, author and isbn unchanged, every
\* other record unchanged, and issue_book accepts the book again.
C3_ReturnClearsFields == [][C3_ReturnStep]_vars

C3_Witness ==
    /\ op.name = "return"
    /\ op.msg = "Returned."
    /\ \E k \in 1..Len(books) :
            /\ books[k].isbn = Strip(op.isbn)
            /\ books[k].status = "available"
            /\ "borrower" \in DOMAIN books[k]

\* C4: every record of the saved file has all six fields title, author,
\* isbn, status, borrower and due_date.
C4_SavedRecordsHaveSixFields ==
    \A k \in 1..Len(file.data) : DOMAIN file.data[k] = SixFields

C10_RejectedStep ==
    /\ (op'.name = "issue"
        /\ \A k \in Held(books, Strip(op'.isbn)) : books[k].status # "available")
            => (books' = books /\ file' = file)
    /\ (op'.name = "return"
        /\ \A k \in Held(books, Strip(op'.isbn)) : books[k].status # "issued")
            => (books' = books /\ file' = file)
    /\ \A k \in 1..Len(books) :
            (k <= Len(books') /\ books[k].status = "issued" /\ books'[k].status = "issued")
                => /\ books'[k].borrower = books[k].borrower
                   /\ books'[k].due_date = books[k].due_date

C10_IssuedIffBorrowed ==
    \A k \in 1..Len(books) :
        books[k].status = "issued"
            <=> (HasValue(books[k], "borrower") /\ HasValue(books[k], "due_date"))

\* C10: a rejected issue_book or return_book changes no record and not the
\* saved file; a record is issued exactly when it has a non-null borrower
\* and due_date; a step never replaces the borrower or due date of a record
\* that stays issued.
C10_RejectedOperationsChangeNothing ==
    /\ []C10_IssuedIffBorrowed
    /\ [][C10_RejectedStep]_vars

C10_Witness ==
    /\ op.name = "issue"
    /\ op.msg = "Already issued."
    /\ now = StartDay + 1
    /\ \E k \in 1..Len(books) :
            /\ books[k].isbn = Strip(op.isbn)
            /\ books[k].status = "issued"
            /\ books[k].due_date = Str(DueDate(StartDay))

(***************************************************************************)
(* Properties of capston0.2.py.                                            *)
(***************************************************************************)
ValidTimestamps(rows) == \A j \in 1..Len(rows) : rows[j].timestamp.k = "ts"

RECURSIVE SumOfDailyTotals(_)
SumOfDailyTotals(series) ==
    IF series = <<>> THEN 0 ELSE Head(series).total + SumOfDailyTotals(Tail(series))

RECURSIVE SumOfBuildingTotals(_)
SumOfBuildingTotals(table) ==
    IF table = <<>> THEN 0 ELSE Head(table).total_kwh + SumOfBuildingTotals(Tail(table))

\* C5 (under SpecAggregate): for a non-empty dataset whose timestamps are all
\* valid, calculate_daily_totals returns, and its values sum to the sum of
\* kwh over all readings: the days run without gap or repetition, and every
\* reading falls on exactly one of them.
C5_DailyTotalsSumToDatasetTotal ==
    (pc \in {"output", "raised", "done"} /\ df.rows # <<>> /\ ValidTimestamps(df.rows))
        => /\ pc # "raised"
           /\ SumOfDailyTotals(daily) = SumKwh(df.rows)
           /\ \A j \in 1..(Len(daily) - 1) : daily[j + 1].day = daily[j].day + 1
           /\ \A i \in 1..Len(df.rows) :
                Cardinality({j \in 1..Len(daily) :
                    /\ daily[j].day * 24 <= df.rows[i].timestamp.v
                    /\ df.rows[i].timestamp.v < (daily[j].day + 1) * 24}) = 1

C5_Witness ==
    /\ pc = "output"
    /\ Len(df.rows) = 2
    /\ ValidTimestamps(df.rows)
    /\ Len(daily) = 3
    /\ daily[2].total = 0
    /\ SumOfDailyTotals(daily) = 3

\* C6 (under SpecMain): the total_kwh column of building_wise_summary sums
\* to the same grand total as the daily totals. Stated here for the datasets
\* of main that hold at least one reading with a valid timestamp.
C6_BuildingTotalsEqualDailyTotals ==
    (pc = "output" /\ \E j \in 1..Len(df.rows) : df.rows[j].timestamp.k = "ts")
        => SumOfBuildingTotals(summary) = SumOfDailyTotals(daily)

GoodTimestampTexts == {<<"0", " ", "1", "8">>, <<"2", " ", "0", "6">>}
GoodKwhTexts == {<<"2">>}

\* The folder is absent, or none of its CSV files is a readable table with
\* both columns and a row whose timestamp and kwh both parse.
OnlyMalformed(fold) ==
    \A f \in fold.files :
        (/\ f.content.suffix = "csv"
         /\ f.content.kind = "table"
         /\ {"timestamp", "kwh"} \subseteq f.content.cols)
            => \A j \in 1..Len(f.content.rows) :
                    \/ f.content.rows[j].timestamp \notin GoodTimestampTexts
                    \/ f.content.rows[j].kwh \notin GoodKwhTexts

\* C7 (under SpecIngest): on an absent folder, a folder without CSV files, or
\* a folder whose CSV files are all empty, unreadable, missing a required
\* column or made only of unparseable rows, load_and_combine_data returns
\* without raising and its result holds no reading.
C7_MalformedFoldersLoadEmpty ==
    (pc # "start" /\ OnlyMalformed(folder))
        => (pc = "prompt" /\ df_csv.rows = <<>>)

C7_Witness ==
    /\ pc = "prompt"
    /\ ~df_csv.isNone
    /\ df_csv.rows = <<>>
    /\ \E f \in folder.files : f.content.kind = "unreadable"
    /\ \E f \in folder.files :
            /\ f.content.kind = "table"
            /\ Len(f.content.rows) = 1
            /\ f.content.rows[1].kwh = <<"x">>

\* C8 (under SpecMain): the dataset main hands to the aggregation step is
\* ordered by non-decreasing timestamp. Stated here for the datasets whose
\* timestamps are all valid.
C8_DatasetSortedByTimestamp ==
    (pc = "aggregate" /\ ValidTimestamps(df.rows))
        => \A i, j \in 1..Len(df.rows) :
                i < j => df.rows[i].timestamp.v <= df.rows[j].timestamp.v

\* C9 (under SpecMain): every reading that reaches the aggregation functions
\* has a parsed timestamp and a numeric kwh.
C9_OnlyParsedReadingsAggregated ==
    pc = "aggregate"
        => \A j \in 1..Len(df.rows) :
                df.rows[j].timestamp.k = "ts" /\ df.rows[j].kwh.k = "num"

====
